---- MODULE Spec2Model ----
(***************************************************************************)
(* GIFt/__init__.py: ModuleIterator, modify_modules, the two state-dict    *)
(* hooks and enable_fine_tuning, over a tree of modules.                   *)
(*                                                                         *)
(* A module is an object id.  Per object the model keeps its class (cls),  *)
(* its ordered children registry `_modules` (mods, a sequence of           *)
(* <<name, object>> pairs) and the requires_grad flag of the one parameter *)
(* "w" it may own (rg).  Class "S" is a plain container without            *)
(* parameters, "A" owns "w", "B" owns "w" and a buffer "buf", "F" is a     *)
(* FinetuableModule owning "w", "P" is an unmarked replacement owning "w". *)
(***************************************************************************)
EXTENDS Integers, Sequences, FiniteSets, TLC

\* ---------------------------------------------------------------- bounds
NumNodes == 4        \* modules of the initial tree, the root included
HookNodes == 3       \* modules of the initial tree in SpecHooks, SpecIter
MaxCalls == 2        \* calls of enable_fine_tuning on the same module
MaxMut == 2          \* registry mutations while one iterator is in use
MaxStops == 2        \* requests made after the iterator is exhausted
MaxMissing == 2      \* keys a loaded checkpoint lacks

LargestTree == IF NumNodes > HookNodes THEN NumNodes ELSE HookNodes
MaxObj == LargestTree + MaxCalls * (LargestTree - 1)
Obj == 0 .. (MaxObj - 1)
Root == 0
NameOf == <<"a", "b", "c", "d", "e", "f", "g">>
NoObj == 0 - 1

VARIABLES cls, mods, rg, nextObj, strat, stack, pc, err, log, last, calls,
          flag, sdHooks, loadHooks, paramFn, paramSets, mods0, rg0, prev,
          sd, ld, it, yielded, stops, itMods0, muts

vars == <<cls, mods, rg, nextObj, strat, stack, pc, err, log, last, calls,
          flag, sdHooks, loadHooks, paramFn, paramSets, mods0, rg0, prev,
          sd, ld, it, yielded, stops, itMods0, muts>>

treeVars == <<cls, mods, rg, nextObj>>
walkVars == <<strat, stack, pc, err, log, last, calls, flag, mods0, rg0,
              prev>>
setupVars == <<sdHooks, loadHooks, paramFn, paramSets>>
hookVars == <<sd, ld>>
iterVars == <<it, yielded, stops, itMods0, muts>>

\* ------------------------------------------------------- generic helpers
Range(s) == {s[i] : i \in 1 .. Len(s)}

\* the subsets of S with at most k elements
RECURSIVE SubsetsUpTo(_, _)
SubsetsUpTo(S, k) ==
    IF k = 0 \/ S = {} THEN {{}}
    ELSE LET x == CHOOSE y \in S : TRUE
             rest == S \ {x}
         IN SubsetsUpTo(rest, k) \cup
            {T \cup {x} : T \in SubsetsUpTo(rest, k - 1)}

RECURSIVE Flatten(_)
Flatten(ss) == IF ss = <<>> THEN <<>> ELSE Head(ss) \o Flatten(Tail(ss))

\* ------------------------------------------------ framework capabilities
\* class_name(layer)
ClassName(classes, o) == classes[o]

IsFinetuableNever(classes, o) == FALSE

\* isinstance(current_module, FinetuableModule)
IsFinetuable(classes, o) == classes[o] = "F"

OwnsParam(classes, o) == classes[o] \in {"A", "B", "F", "P"}
OwnsBuffer(classes, o) == classes[o] = "B"

\* setattr(parent, name, new): the entry keeps its place in the registry
SetChild(items, name, new) ==
    IF \E i \in 1 .. Len(items) : items[i][1] = name
    THEN [i \in 1 .. Len(items) |->
            IF items[i][1] = name THEN <<name, new>> ELSE items[i]]
    ELSE Append(items, <<name, new>>)

\* the modules of the subtree of m, m included (module.modules())
RECURSIVE Subtree(_, _)
Subtree(registry, m) ==
    {m} \cup UNION {Subtree(registry, e[2]) : e \in Range(registry[m])}

\* module.named_parameters(): own parameters first, then the children's in
\* registration order, each name prefixed by the dotted path of its owner
RECURSIVE NamedParametersRec(_, _, _, _)
NamedParametersRec(classes, registry, m, prefix) ==
    (IF OwnsParam(classes, m)
     THEN <<[name |-> prefix \o "w", obj |-> m]>> ELSE <<>>)
    \o Flatten([i \in 1 .. Len(registry[m]) |->
                  NamedParametersRec(classes, registry, registry[m][i][2],
                                     prefix \o registry[m][i][1] \o ".")])

NamedParameters(classes, registry, m) ==
    NamedParametersRec(classes, registry, m, "")

\* utils.freeze_module: every parameter of the module, children included,
\* gets requires_grad = False
FreezeModule(grads, registry, m) ==
    [o \in Obj |-> IF o \in Subtree(registry, m) THEN FALSE ELSE grads[o]]

\* utils.trainable_parameters(module, recurse=True)
TrainableParameters(classes, registry, grads, m) ==
    SelectSeq(NamedParameters(classes, registry, m),
              LAMBDA p : grads[p.obj])

\* ------------------------------------------------------- ModuleIterator
GlobalNameDotted(parent_name, layer_name) == parent_name \o "." \o layer_name

\* line 40
GlobalName(parent_name, layer_name) ==
    IF parent_name # "" THEN parent_name \o "." \o layer_name ELSE layer_name

\* __init__: the items of module._modules are copied into a list
ModuleIterator(registry, module, parent_name) ==
    [module |-> module, iterations |-> registry[module], index |-> 0,
     parent_name |-> parent_name]

\* __len__
IterLen(iter) == Len(iter.iterations)

\* __next__ while self._index < len(self): the 5-tuple that is returned
IterTuple(classes, registry, iter) ==
    LET item == iter.iterations[iter.index + 1] IN
    [layer_name |-> item[1],
     global_name |-> GlobalName(iter.parent_name, item[1]),
     layer_class_name |-> ClassName(classes, item[2]),
     layer |-> item[2],
     has_child |-> registry[item[2]] # <<>>]

IterAdvanceTwo(iter) == [iter EXCEPT !.index = iter.index + 2]

\* line 41
IterAdvance(iter) == [iter EXCEPT !.index = iter.index + 1]

\* ------------------------------------------------------------- strategy
\* What one strategy call does: the boolean it returns and the replacement
\* it installs under the child's name in the parent's registry.
\*   "none"  no replacement          "fin"   a FinetuableModule leaf
\*   "plain" an unmarked leaf        "finc"  a FinetuableModule wrapping
\*                                           the original child as "base"
\* A strategy that installs a FinetuableModule reports a match.
ReplKinds == {"none", "fin", "finc", "plain"}
Decisions ==
    {d \in [find : BOOLEAN, repl : ReplKinds] :
        d.repl \in {"fin", "finc"} => d.find}
Unset == [find |-> FALSE, repl |-> "unset"]
StratClasses == {"S", "A", "B", "P", "F"}

ReplClass(kind) == IF kind = "plain" THEN "P" ELSE "F"

StrategyMods(registry, parent, name, child, d, r) ==
    IF d.repl = "none" THEN registry
    ELSE [registry EXCEPT
            ![parent] = SetChild(registry[parent], name, r),
            ![r] = IF d.repl = "finc" THEN << <<"base", child>> >> ELSE <<>>]

StrategyCls(classes, d, r) ==
    IF d.repl = "none" THEN classes
    ELSE [classes EXCEPT ![r] = ReplClass(d.repl)]

\* ------------------------------------------------------- modify_modules
RegisteredModule(registry, parent, name, layer) ==
    LET i == CHOOSE j \in 1 .. Len(registry[parent]) :
                 registry[parent][j][1] = name
    IN registry[parent][i][2]

\* line 48: current_module is the object of the iterator's tuple
CurrentModule(registry, parent, name, layer) == layer

ShouldRecurseLeafToo(find, has_child) == ~find
ShouldRecurseMatchedToo(find, has_child) == has_child

\* line 53
ShouldRecurse(find, has_child) == ~find /\ has_child

ErrorMessage(global_name) == "Layer " \o global_name \o " is already finetuable"

NoLast == [child |-> NoObj, parent |-> NoObj, name |-> "", gname |-> "",
           find |-> FALSE, has_child |-> FALSE, repl |-> NoObj, depth |-> 0]

Top == stack[Len(stack)]

\* enable_fine_tuning is entered: modify_modules(module, strategy) starts.
\* The double-application error is fatal: no call follows a failed one.
Enable ==
    /\ pc \in {"idle", "done"}
    /\ calls < MaxCalls
    /\ calls' = calls + 1
    /\ pc' = "walking"
    /\ stack' = <<ModuleIterator(mods, Root, "")>>
    /\ err' = ""
    /\ log' = <<>>
    /\ last' = NoLast
    /\ mods0' = mods
    /\ rg0' = rg
    /\ prev' = [pc |-> pc, log |-> log, sdHooks |-> sdHooks,
                loadHooks |-> loadHooks, paramFn |-> paramFn,
                paramSets |-> paramSets]
    /\ UNCHANGED <<strat, flag, treeVars, setupVars, hookVars, iterVars>>

\* one pass of the loop body of modify_modules (lines 48-56) on the
\* innermost running call
Step ==
    /\ pc = "walking"
    /\ stack # <<>>
    /\ Top.index < IterLen(Top)
    /\ LET t == IterTuple(cls, mods, Top)
           adv == [stack EXCEPT ![Len(stack)] = IterAdvance(Top)]
       IN
       IF IsFinetuable(cls, t.layer)
       THEN /\ pc' = "failed"
            /\ err' = ErrorMessage(t.global_name)
            /\ stack' = <<>>
            /\ last' = NoLast
            /\ UNCHANGED <<treeVars, strat, log, calls, flag, mods0, rg0,
                           prev, setupVars, hookVars, iterVars>>
       ELSE \E d \in Decisions :
            /\ strat[t.layer_class_name] \in {Unset, d}
            /\ d.repl # "none" => nextObj < MaxObj
            /\ LET r == IF d.repl = "none" THEN NoObj ELSE nextObj
                   m1 == StrategyMods(mods, Top.module, t.layer_name,
                                      t.layer, d, nextObj)
                   c1 == StrategyCls(cls, d, nextObj)
                   cur == CurrentModule(m1, Top.module, t.layer_name,
                                        t.layer)
                   e == [child |-> t.layer, parent |-> Top.module,
                         name |-> t.layer_name, gname |-> t.global_name,
                         find |-> d.find, has_child |-> t.has_child,
                         repl |-> r, depth |-> Len(stack)]
               IN
               /\ strat' = [strat EXCEPT ![t.layer_class_name] = d]
               /\ mods' = m1
               /\ cls' = c1
               /\ nextObj' = IF d.repl = "none" THEN nextObj ELSE nextObj + 1
               /\ log' = Append(log, e)
               /\ last' = e
               /\ IF ShouldRecurse(d.find, t.has_child)
                  THEN /\ stack' = Append(adv, ModuleIterator(m1, cur,
                                                              t.global_name))
                       /\ rg' = rg
                  ELSE /\ stack' = adv
                       /\ rg' = FreezeModule(rg, m1, cur)
            /\ UNCHANGED <<pc, err, calls, flag, mods0, rg0, prev,
                           setupVars, hookVars, iterVars>>

\* the iterator of the innermost call is exhausted: the call returns; when
\* it was the outermost one, enable_fine_tuning goes on (lines 105-110).
\* The argument replace_parameter_function is read at line 109 only, so its
\* value is drawn where it is read.
Return ==
    /\ pc = "walking"
    /\ stack # <<>>
    /\ Top.index >= IterLen(Top)
    /\ stack' = SubSeq(stack, 1, Len(stack) - 1)
    /\ last' = NoLast
    /\ IF Len(stack) = 1
       THEN \E replace_parameter_function \in BOOLEAN :
            /\ flag' = replace_parameter_function
            /\ pc' = "done"
            /\ sdHooks' = sdHooks + 1
            /\ loadHooks' = loadHooks + 1
            /\ paramFn' = IF replace_parameter_function THEN "trainable"
                          ELSE paramFn
            /\ paramSets' = IF replace_parameter_function
                            THEN paramSets + 1 ELSE paramSets
       ELSE UNCHANGED <<pc, flag, setupVars>>
    /\ UNCHANGED <<treeVars, strat, err, log, calls, mods0, rg0,
                   prev, hookVars, iterVars>>

NoStateDict == [valid |-> FALSE, prefix |-> "", items |-> <<>>]
NoLoad == [valid |-> FALSE, missing_in |-> <<>>, missing_keys |-> <<>>]

NoIter == [module |-> NoObj, iterations |-> <<>>, index |-> 0,
           parent_name |-> ""]

\* ------------------------------------------------------ state-dict hooks
Prefixes == {"", "m."}

\* nn.Module.state_dict(prefix=...) before any hook: per module its own
\* parameter, then its own buffer, then its children in registration order
RECURSIVE FullStateDict(_, _, _, _)
FullStateDict(classes, registry, m, prefix) ==
    (IF OwnsParam(classes, m)
     THEN <<[key |-> prefix \o "w", value |-> <<m, "w">>]>> ELSE <<>>)
    \o (IF OwnsBuffer(classes, m)
        THEN <<[key |-> prefix \o "buf", value |-> <<m, "buf">>]>> ELSE <<>>)
    \o Flatten([i \in 1 .. Len(registry[m]) |->
                  FullStateDict(classes, registry, registry[m][i][2],
                                prefix \o registry[m][i][1] \o ".")])

Keys(state_dict) == {state_dict[i].key : i \in 1 .. Len(state_dict)}
KeyList(state_dict) == [i \in 1 .. Len(state_dict) |-> state_dict[i].key]

\* line 66
NotRequiresGradParas(classes, registry, grads, m) ==
    LET np == SelectSeq(NamedParameters(classes, registry, m),
                        LAMBDA p : ~grads[p.obj])
    IN [i \in 1 .. Len(np) |-> np[i].name]

FineTuningSdHookKeepAll(classes, registry, grads, m, state_dict) == state_dict

\* fine_tuning_sd_hook, lines 65-70
FineTuningSdHook(classes, registry, grads, m, state_dict) ==
    LET not_requires_grad_paras ==
            NotRequiresGradParas(classes, registry, grads, m)
    IN SelectSeq(state_dict,
                 LAMBDA e : e.key \notin Range(not_requires_grad_paras))

\* the framework runs every registered state-dict hook on the mapping
RECURSIVE RunSdHooks(_, _, _, _, _, _)
RunSdHooks(n, classes, registry, grads, m, state_dict) ==
    IF n = 0 THEN state_dict
    ELSE RunSdHooks(n - 1, classes, registry, grads, m,
                    FineTuningSdHook(classes, registry, grads, m, state_dict))

\* module.state_dict(prefix=prefix) with n hooks registered
ModuleStateDict(n, classes, registry, grads, m, prefix) ==
    RunSdHooks(n, classes, registry, grads, m,
               FullStateDict(classes, registry, m, prefix))

\* list.remove(x): the first occurrence goes
RECURSIVE RemoveFirst(_, _)
RemoveFirst(s, x) ==
    IF s = <<>> THEN <<>>
    ELSE IF Head(s) = x THEN Tail(s)
    ELSE <<Head(s)>> \o RemoveFirst(Tail(s), x)

\* lines 80-82
RECURSIVE RemoveLoop(_, _, _)
RemoveLoop(key_copys, missing_keys, finetuned_sd_keys) ==
    IF key_copys = <<>> THEN missing_keys
    ELSE RemoveLoop(Tail(key_copys),
                    IF Head(key_copys) \notin finetuned_sd_keys
                    THEN RemoveFirst(missing_keys, Head(key_copys))
                    ELSE missing_keys,
                    finetuned_sd_keys)

\* fine_tuning_loadsd_posthook, lines 78-82
FineTuningLoadsdPosthook(n, classes, registry, grads, m, missing_keys) ==
    LET finetuned_sd_keys ==
            Keys(ModuleStateDict(n, classes, registry, grads, m, ""))
    IN RemoveLoop(missing_keys, missing_keys, finetuned_sd_keys)

RECURSIVE RunLoadHooks(_, _, _, _, _, _, _)
RunLoadHooks(k, n, classes, registry, grads, m, missing_keys) ==
    IF k = 0 THEN missing_keys
    ELSE RunLoadHooks(k - 1, n, classes, registry, grads, m,
                      FineTuningLoadsdPosthook(n, classes, registry, grads,
                                               m, missing_keys))

\* module.state_dict(prefix=p) on the transformed module
StateDict ==
    /\ pc = "done"
    /\ ~sd.valid /\ ~ld.valid
    /\ \E p \in Prefixes :
         sd' = [valid |-> TRUE, prefix |-> p,
                items |-> ModuleStateDict(sdHooks, cls, mods, rg, Root, p)]
    /\ ld' = NoLoad
    /\ UNCHANGED <<treeVars, walkVars, setupVars, iterVars>>

\* module.load_state_dict(checkpoint): the framework lists the keys the
\* module expects and the checkpoint lacks, then runs the post-hooks
LoadStateDict ==
    /\ pc = "done"
    /\ ~sd.valid /\ ~ld.valid
    /\ ~sd.valid /\ ~ld.valid
    /\ LET expected == KeyList(FullStateDict(cls, mods, Root, "")) IN
       \E lacking \in SubsetsUpTo(Range(expected), MaxMissing) :
         /\ LET missing == SelectSeq(expected, LAMBDA k : k \in lacking) IN
            ld' = [valid |-> TRUE, missing_in |-> missing,
                   missing_keys |-> RunLoadHooks(loadHooks, sdHooks, cls,
                                                 mods, rg, Root, missing)]
    /\ sd' = NoStateDict
    /\ UNCHANGED <<treeVars, walkVars, setupVars, iterVars>>

\* module.requires_grad_(b): every parameter of the transformed module is
\* unfrozen (b true) or frozen (b false) after the setup
RequiresGrad ==
    /\ pc = "done"
    /\ ~sd.valid /\ ~ld.valid
    /\ \E b \in BOOLEAN :
         /\ \E o \in Subtree(mods, Root) : OwnsParam(cls, o) /\ rg[o] # b
         /\ rg' = [o \in Obj |->
                     IF o \in Subtree(mods, Root) THEN b ELSE rg[o]]
    /\ UNCHANGED <<cls, mods, nextObj, walkVars, setupVars, hookVars,
                   iterVars>>

\* ------------------------------------------- a ModuleIterator on its own
\* next(iterator)
IterNext ==
    /\ it # NoIter
    /\ IF it.index < IterLen(it)
       THEN /\ yielded' = Append(yielded, IterTuple(cls, mods, it))
            /\ it' = IterAdvance(it)
            /\ stops' = stops
       ELSE /\ stops < MaxStops
            /\ stops' = stops + 1
            /\ UNCHANGED <<it, yielded>>
    /\ UNCHANGED <<treeVars, walkVars, setupVars, hookVars, itMods0, muts>>

\* setattr(module, name, new_module) between two requests
MutReplace ==
    /\ it # NoIter
    /\ muts < MaxMut
    /\ nextObj < MaxObj
    /\ \E i \in 1 .. Len(mods[it.module]) :
         mods' = [mods EXCEPT ![it.module] =
                     SetChild(@, mods[it.module][i][1], nextObj)]
    /\ cls' = [cls EXCEPT ![nextObj] = "P"]
    /\ nextObj' = nextObj + 1
    /\ muts' = muts + 1
    /\ UNCHANGED <<rg, walkVars, setupVars, hookVars, it, yielded, stops,
                   itMods0>>

\* delattr(module, name) between two requests
MutRemove ==
    /\ it # NoIter
    /\ muts < MaxMut
    /\ \E i \in 1 .. Len(mods[it.module]) :
         mods' = [mods EXCEPT ![it.module] =
                     SubSeq(@, 1, i - 1) \o SubSeq(@, i + 1, Len(@))]
    /\ muts' = muts + 1
    /\ UNCHANGED <<cls, rg, nextObj, walkVars, setupVars, hookVars, it,
                   yielded, stops, itMods0>>

\* module.add_module("x", new_module) between two requests
MutAdd ==
    /\ it # NoIter
    /\ muts < MaxMut
    /\ nextObj < MaxObj
    /\ \A i \in 1 .. Len(mods[it.module]) : mods[it.module][i][1] # "x"
    /\ mods' = [mods EXCEPT ![it.module] = SetChild(@, "x", nextObj)]
    /\ cls' = [cls EXCEPT ![nextObj] = "P"]
    /\ nextObj' = nextObj + 1
    /\ muts' = muts + 1
    /\ UNCHANGED <<rg, walkVars, setupVars, hookVars, it, yielded, stops,
                   itMods0>>

\* ----------------------------------------------------------------- Init
ParentMaps(n) ==
    {p \in [1 .. (n - 1) -> 0 .. (n - 2)] : \A i \in 1 .. (n - 1) : p[i] < i}

ChildrenOf(n, p, o) ==
    SelectSeq([i \in 1 .. (n - 1) |-> <<NameOf[i], i>>],
              LAMBDA e : p[e[2]] = o)

\* a tree of n modules, every parameter trainable
InitTree(n) ==
    \E p \in ParentMaps(n), c \in [1 .. (n - 1) -> {"A", "B", "F"}],
       rc \in {"S", "A"} :
        /\ cls = [o \in Obj |-> IF o = Root THEN rc
                                ELSE IF o < n THEN c[o] ELSE "none"]
        /\ mods = [o \in Obj |-> IF o < n THEN ChildrenOf(n, p, o)
                                 ELSE <<>>]
        /\ rg = [o \in Obj |-> TRUE]
        /\ nextObj = n

InitRest ==
    /\ strat = [c \in StratClasses |-> Unset]
    /\ stack = <<>>
    /\ pc = "idle"
    /\ err = ""
    /\ log = <<>>
    /\ last = NoLast
    /\ calls = 0
    /\ flag = FALSE
    /\ sdHooks = 0
    /\ loadHooks = 0
    /\ paramFn = "all"
    /\ paramSets = 0
    /\ mods0 = mods
    /\ rg0 = rg
    /\ prev = [pc |-> "idle", log |-> <<>>, sdHooks |-> 0, loadHooks |-> 0,
               paramFn |-> "all", paramSets |-> 0]
    /\ sd = NoStateDict
    /\ ld = NoLoad
    /\ yielded = <<>>
    /\ stops = 0
    /\ itMods0 = mods
    /\ muts = 0

Init == InitTree(NumNodes) /\ InitRest /\ it = NoIter

Next == Enable \/ Step \/ Return

Spec == Init /\ [][Next]_vars

\* one setup, then the hooks at work
EnableOnce == calls = 0 /\ Enable

NextHooks ==
    EnableOnce \/ Step \/ Return \/ StateDict \/ LoadStateDict
    \/ RequiresGrad

InitHooks == InitTree(HookNodes) /\ InitRest /\ it = NoIter

SpecHooks == InitHooks /\ [][NextHooks]_vars

\* an iterator over one module of the tree, the registry changing under it
InitIter ==
    /\ InitTree(HookNodes)
    /\ InitRest
    /\ \E m \in 0 .. (HookNodes - 1), pn \in {"", "p"} :
         it = ModuleIterator(mods, m, pn)

NextIter == IterNext \/ MutReplace \/ MutRemove \/ MutAdd

SpecIter == InitIter /\ [][NextIter]_vars

\* ------------------------------------------------- the tree at call time
\* mods0 and rg0 hold the registry and the flags as they were when the
\* running (or last) call of enable_fine_tuning started.
Tree0 == Subtree(mods0, Root)

\* the object carries the FinetuableModule capability
HasMarker(o) == cls[o] = "F"

\* the nodes below m in depth-first pre-order, each with its parent, its
\* local name, its dotted path from the root and its ancestors below the root
RECURSIVE Below0(_, _, _)
Below0(m, path, anc) ==
    Flatten([i \in 1 .. Len(mods0[m]) |->
        LET nm == mods0[m][i][1]
            c == mods0[m][i][2]
            pth == IF path = "" THEN nm ELSE path \o "." \o nm
        IN <<[node |-> c, parent |-> m, name |-> nm, path |-> pth,
              anc |-> anc]>>
           \o Below0(c, pth, anc \cup {c})])

Nodes0 == Below0(Root, "", {})

NoMarkers0 == \A n \in Tree0 \ {Root} : ~HasMarker(n)

VisitedSeq == [i \in 1 .. Len(log) |-> log[i].child]

UnmatchedVisited(a) ==
    \E i \in 1 .. Len(log) : log[i].child = a /\ ~log[i].find

\* every ancestor below the root was visited and left unmatched
ChainUnmatched(e) == \A a \in e.anc : UnmatchedVisited(a)

AllFrozenUnder(m) ==
    \A o \in Subtree(mods, m) : OwnsParam(cls, o) => ~rg[o]

\* the last step pushed a call of modify_modules on the child it handled
Recursed ==
    /\ Len(stack) = last.depth + 1
    /\ Top.module = last.child
    /\ Top.index = 0
    /\ Top.parent_name = last.gname

\* ---------------------------------------------------------------- claims

\* C1: for every child the strategy was called on, the walk recurses into
\* the child iff the strategy returned false and the child has children; in
\* the three other cases the child is frozen and not recursed into.
C1_RecurseIffUnmatchedComposite ==
    last # NoLast =>
        /\ Recursed <=> (~last.find /\ last.has_child)
        /\ ~(~last.find /\ last.has_child) =>
              /\ Len(stack) = last.depth
              /\ Top.module = last.parent
              /\ AllFrozenUnder(last.child)

C1_Witness ==
    /\ last # NoLast
    /\ last.find /\ last.has_child
    /\ ~Recursed
    /\ AllFrozenUnder(last.child)

\* C3 as stated: whenever the tree holds a marked node, at any depth and for
\* any strategy, the call raises the error naming that node and the strategy
\* is never called on it.
C3_Original ==
    pc \in {"done", "failed"} =>
        LET nodes == Nodes0 IN
        \A i \in 1 .. Len(nodes) :
            HasMarker(nodes[i].node) =>
                /\ pc = "failed"
                /\ err = ErrorMessage(nodes[i].path)
                /\ nodes[i].node \notin Range(VisitedSeq)

\* the marked nodes the walk gets to, in pre-order
ReachedMarked ==
    SelectSeq(Nodes0, LAMBDA e : HasMarker(e.node) /\ ChainUnmatched(e))

\* C3 amended: the call raises iff the walk reaches a marked node, that is
\* one whose ancestors below the root were all visited and left unmatched;
\* the error names the first such node in pre-order, and the strategy is
\* never called on a marked node.
C3_RaisesOnFirstReachedMarked ==
    /\ \A i \in 1 .. Len(log) : ~HasMarker(log[i].child)
    /\ pc = "done" => ReachedMarked = <<>>
    /\ pc = "failed" =>
          LET reached == ReachedMarked IN
          /\ reached # <<>>
          /\ err = ErrorMessage(reached[1].path)

C3_Witness ==
    /\ pc = "failed"
    /\ Len(log) >= 1
    /\ Len(ReachedMarked) >= 1
    /\ ReachedMarked[1].anc # {}
    /\ err = ErrorMessage(ReachedMarked[1].path)

\* C5 as stated: once a call completed with a strategy that matched at least
\* one node, the next call on the same module fails in modify_modules and
\* registers no hook and replaces no accessor.
PrevMatched == \E i \in 1 .. Len(prev.log) : prev.log[i].find

SetupAsBefore ==
    /\ sdHooks = prev.sdHooks
    /\ loadHooks = prev.loadHooks
    /\ paramFn = prev.paramFn
    /\ paramSets = prev.paramSets

C5_Original ==
    (calls >= 2 /\ prev.pc = "done" /\ PrevMatched /\ pc # "walking") =>
        (pc = "failed" /\ SetupAsBefore)

\* every match of the completed call installed a FinetuableModule under
\* the matched name, and no unmatched call touched the registry
PrevMarksEveryMatch ==
    \A i \in 1 .. Len(prev.log) :
        LET e == prev.log[i] IN
        IF e.find THEN e.repl # NoObj /\ HasMarker(e.repl)
        ELSE e.repl = NoObj

FirstPrevMatched ==
    prev.log[CHOOSE i \in 1 .. Len(prev.log) :
                /\ prev.log[i].find
                /\ \A j \in 1 .. (i - 1) : ~prev.log[j].find]

\* C5 amended: when every match of the completed call installed a marked
\* replacement and its unmatched calls left the registry alone, the next
\* call with the same strategy fails in modify_modules with the error naming
\* the first matched node, and hooks and accessor stay as they were.
C5_SecondCallFails ==
    (calls >= 2 /\ prev.pc = "done" /\ PrevMatched /\ PrevMarksEveryMatch
       /\ pc # "walking") =>
        /\ pc = "failed"
        /\ err = ErrorMessage(FirstPrevMatched.gname)
        /\ SetupAsBefore

C5_Witness ==
    /\ calls >= 2 /\ prev.pc = "done" /\ PrevMatched /\ PrevMarksEveryMatch
    /\ pc = "failed"
    /\ Len(log) >= 1
    /\ sdHooks = 1

\* C6: with a strategy that matches nothing and mutates nothing, after
\* enable_fine_tuning completes no parameter of the tree is trainable.
C6_Claim ==
    (pc = "done"
       /\ \A i \in 1 .. Len(log) : ~log[i].find /\ log[i].repl = NoObj) =>
        TrainableParameters(cls, mods, rg, Root) = <<>>

\* C7 as stated: when the strategy replaced the child in the registry, the
\* follow-up targets the replacement: recursion descends into it, and on the
\* freeze branch the replacement is frozen unless it has children.
C7_Original ==
    (last # NoLast /\ last.repl # NoObj) =>
        IF ~last.find /\ last.has_child
        THEN Top.module = last.repl
        ELSE mods[last.repl] = <<>> => ~rg[last.repl]

\* C7 amended: the follow-up targets the child object the iterator yielded,
\* not the module now registered under the name: recursion descends into the
\* original child, the freeze branch freezes the original child, and the
\* replacement's own parameter stays as the strategy installed it.
C7_FollowUpOnYieldedChild ==
    (last # NoLast /\ last.repl # NoObj) =>
        /\ RegisteredModule(mods, last.parent, last.name, last.child)
              = last.repl
        /\ last.repl # last.child
        /\ IF ~last.find /\ last.has_child
           THEN Top.module = last.child /\ Top.iterations = mods[last.child]
           ELSE AllFrozenUnder(last.child) /\ rg[last.repl]

C7_Witness ==
    /\ last # NoLast /\ last.repl # NoObj
    /\ last.find
    /\ mods[last.repl] = <<>>
    /\ rg[last.repl]
    /\ ~rg[last.child]

\* C9: on a tree without marked nodes a completed walk calls the strategy
\* exactly once on each node whose ancestors below the root are all
\* unmatched, in depth-first pre-order, never on the root and never beneath
\* a matched node.
C9_VisitOncePreorder ==
    (pc = "done" /\ NoMarkers0) =>
        LET nodes == Nodes0
            due == SelectSeq(nodes, ChainUnmatched)
        IN
        /\ VisitedSeq = [i \in 1 .. Len(due) |-> due[i].node]
        /\ Root \notin Range(VisitedSeq)
        /\ \A i, j \in 1 .. Len(log) : log[i].child = log[j].child => i = j
        /\ \A i \in 1 .. Len(log) :
              \E k \in 1 .. Len(nodes) :
                  /\ nodes[k].node = log[i].child
                  /\ nodes[k].path = log[i].gname
                  /\ \A a \in nodes[k].anc :
                        UnmatchedVisited(a) /\ mods0[a] # <<>>

C9_Witness ==
    /\ pc = "done" /\ NoMarkers0
    /\ \E i, j \in 1 .. Len(log) :
          /\ ~log[i].find /\ log[i].has_child
          /\ log[j].find /\ log[j].has_child
    /\ Tree0 \ (Range(VisitedSeq) \cup {Root}) # {}

\* the replacements and freezes made by the strategy calls logged so far
EffectsKept ==
    \A i \in 1 .. Len(log) :
        LET e == log[i] IN
        /\ e.repl # NoObj =>
              RegisteredModule(mods, e.parent, e.name, e.child) = e.repl
        /\ (e.find \/ ~e.has_child) =>
              \A o \in Subtree(mods, e.child) : ~rg[o]

\* nodes the walk did not get to are as they were when the call started
LaterUntouched ==
    LET frozen == UNION {Subtree(mods0, log[i].child) :
                           i \in {j \in 1 .. Len(log) :
                                    log[j].find \/ ~log[j].has_child}}
        nodes == Nodes0
    IN \A k \in 1 .. Len(nodes) :
          nodes[k].node \notin (Range(VisitedSeq) \cup frozen) =>
              /\ rg[nodes[k].node] = rg0[nodes[k].node]
              /\ mods[nodes[k].node] = mods0[nodes[k].node]
              /\ <<nodes[k].name, nodes[k].node>>
                    \in Range(mods[nodes[k].parent])

\* C10: when modify_modules raises inside enable_fine_tuning nothing is
\* rolled back and nothing follows: the work done on the nodes visited
\* before stays, the other nodes are untouched, no hook is registered and
\* the parameter accessor is not replaced.
C10_AbortKeepsPartialWork ==
    pc = "failed" =>
        /\ stack = <<>>
        /\ SetupAsBefore
        /\ EffectsKept
        /\ LaterUntouched

C10_Witness ==
    /\ pc = "failed"
    /\ calls = 1
    /\ sdHooks = 0 /\ loadHooks = 0 /\ paramFn = "all"
    /\ \E i \in 1 .. Len(log) : log[i].repl # NoObj
    /\ \E i \in 1 .. Len(log) : ~rg[log[i].child]
    /\ \E n \in Tree0 \ {Root} : n \notin Range(VisitedSeq) /\ rg[n]

\* C2: every state-dict produced on the transformed module, whatever the
\* prefix, has no key of a parameter whose requires_grad is false and has
\* every buffer entry unchanged.
C2_Claim ==
    sd.valid =>
        LET np == NamedParameters(cls, mods, Root) IN
        /\ \A i \in 1 .. Len(np) :
              ~rg[np[i].obj] => (sd.prefix \o np[i].name) \notin Keys(sd.items)
        /\ \A e \in Range(FullStateDict(cls, mods, Root, sd.prefix)) :
              e.value[2] = "buf" => e \in Range(sd.items)

\* C4: after a load into the transformed module the post-hook leaves in the
\* missing-keys list exactly the originally missing keys of trainable
\* parameters and of buffers, in their original order; the keys of frozen
\* parameters are gone and no key is added.
C4_MissingKeysFiltered ==
    ld.valid =>
        LET np == NamedParameters(cls, mods, Root)
            frozenKeys == {np[i].name : i \in {j \in 1 .. Len(np) :
                                                 ~rg[np[j].obj]}}
            trainableKeys == {np[i].name : i \in {j \in 1 .. Len(np) :
                                                    rg[np[j].obj]}}
            full == FullStateDict(cls, mods, Root, "")
            bufferKeys == {full[i].key : i \in {j \in 1 .. Len(full) :
                                                  full[j].value[2] = "buf"}}
        IN
        /\ ld.missing_keys =
              SelectSeq(ld.missing_in,
                        LAMBDA k : k \in trainableKeys \cup bufferKeys)
        /\ \A k \in frozenKeys : k \notin Range(ld.missing_keys)
        /\ Range(ld.missing_keys) \subseteq Range(ld.missing_in)

C4_Witness ==
    /\ ld.valid
    /\ Len(ld.missing_in) = 2
    /\ Len(ld.missing_keys) = 1
    /\ ld.missing_keys[1] = ld.missing_in[2]

\* C8: an iterator yields one tuple per child the module had when the
\* iterator was built, in registration order, with the child's local name,
\* its global name and the child object, whatever happens to the module's
\* registry meanwhile, and afterwards only signals exhaustion.
C8_IteratorSnapshot ==
    it # NoIter =>
        LET children == itMods0[it.module] IN
        /\ Len(yielded) <= Len(children)
        /\ \A i \in 1 .. Len(yielded) :
              /\ yielded[i].layer_name = children[i][1]
              /\ yielded[i].layer = children[i][2]
              /\ yielded[i].global_name =
                    (IF it.parent_name = "" THEN children[i][1]
                     ELSE it.parent_name \o "." \o children[i][1])
        /\ stops > 0 => Len(yielded) = Len(children)

C8_Witness ==
    /\ it # NoIter
    /\ stops = MaxStops
    /\ muts > 0
    /\ Len(yielded) >= 2
    /\ Len(mods[it.module]) # Len(itMods0[it.module])
    /\ \E i \in 1 .. Len(yielded) : yielded[i].global_name = "b"

====
